---------------------------- MODULE Spec2Model ----------------------------
(***************************************************************************)
(* ISS_Analysis_Spark: the streaming application of                        *)
(* src/src/streaming/iss_spark_streaming.py (ISSSparkStreaming).           *)
(*                                                                         *)
(* run_analysis starts three Structured Streaming queries over one input   *)
(* directory of one-record JSON files:                                     *)
(*   proc    (iss_processed_data)  rows of process_stream -> json sink     *)
(*   stats   (iss_statistics)      compute_statistics     -> json sink     *)
(*   console (iss_console_output)  rows of process_stream -> console       *)
(* and then blocks in awaitTermination.                                    *)
(*                                                                         *)
(* The calls the source makes are modelled by what the engine does for     *)
(* them, one micro-batch of one query per step:                            *)
(*  - readStream.schema(..).json(dir): each query has a file source of its *)
(*    own; a micro-batch takes every file of the directory that the        *)
(*    query's source log (in its checkpoint) has not recorded yet.  A line *)
(*    that does not parse against the schema gives a row of nulls (the     *)
(*    reader's default mode is PERMISSIVE; the schema has no corrupt-      *)
(*    record column).                                                      *)
(*  - withWatermark("event_time", "10 seconds"): the query's watermark     *)
(*    starts at 0 and, at the end of a micro-batch, becomes the larger of  *)
(*    its old value and (largest event_time of the batch - 10 s).  The     *)
(*    value in force DURING a micro-batch is the one computed before it.   *)
(*  - groupBy(window(event_time, "1 minute")).agg(..) written in append    *)
(*    mode: rows with a null event_time belong to no window; a row whose   *)
(*    window end is <= the watermark in force is dropped; the other rows   *)
(*    update the state; then every window of the state whose end is <= the *)
(*    watermark in force is emitted and removed.  When a micro-batch has   *)
(*    moved the watermark, one more micro-batch runs even without new      *)
(*    files.                                                               *)
(*  - writeStream.format("json").option("path", out): the file sink keeps, *)
(*    in the OUTPUT directory, the id of the last batch it committed and   *)
(*    skips a batch whose id is not larger.  The checkpoint (batch ids,    *)
(*    source log, watermark, state) is in checkpointLocation.              *)
(*    option("cleanSource", "delete") is an option of the file SOURCE; set *)
(*    on the writer it does nothing: input files are never removed.        *)
(*                                                                         *)
(* Time is in whole seconds since the epoch, as the "timestamp" field of a *)
(* record (to_timestamp of a long reads it as seconds).  A record is       *)
(* identified by its file: its index in the directory's arrival order.     *)
(* Of a row only the event time is kept; the seven aggregates of a window  *)
(* are represented by data_points (count("*")) and the set of rows they    *)
(* were computed from.                                                     *)
(*                                                                         *)
(* The producer, src/src/streaming/iss_data_generator.py (ISSDataGenerator)*)
(* with fetch_position and calculate_velocity of                           *)
(* src/src/utils/iss_data_fetcher.py, is modelled one statement group per  *)
(* step: the loop test, one request of fetch_position, the body that       *)
(* enriches and writes a sample, the inter-poll sleep, the summary.  The   *)
(* replies of the API are inputs: a sample, a RequestException, or a reply *)
(* whose "message" is not "success".  Latitudes and longitudes are in      *)
(* hundredths of a degree, velocities in 0.0001 km/s (round(.., 4)).       *)
(*                                                                         *)
(* Where the two programs meet, the write of a record file is two steps:   *)
(* open(filepath, 'w') creates the file, empty, in the directory the       *)
(* queries list, and the record (a few hundred bytes, held in the file     *)
(* object's buffer by json.dump) reaches it when the with block closes the *)
(* file.  A file source takes a file by its path: a file it has recorded   *)
(* in its source log is not read again when it grows.  An empty file gives *)
(* no row.                                                                 *)
(***************************************************************************)
EXTENDS Integers, Sequences, FiniteSets, TLC

VARIABLES
    files,       \* input directory: the record files, in arrival order
    pc,          \* run_analysis: "idle", "await", "raised", "returned"
    run,         \* number of times run_analysis has been started
    status,      \* per query: "none", "active", "failed", "stopped"
    seen,        \* checkpoint, per query: files recorded in its source log
    batchId,     \* checkpoint, per query: id of the next micro-batch
    wm,          \* checkpoint of stats: watermark for the next micro-batch
    evictWm,     \* checkpoint of stats: watermark the last micro-batch used
    state,       \* checkpoint of stats: window start -> accumulator
    arrWm,       \* per file stats has read (this checkpoint): watermark in force
    sinkLog,     \* output dirs: last batch id each file sink committed
    procOut,     \* the processed-records stream (rows written, in order)
    statsEmits,  \* every WindowStats stats handed to its sink (written or not)
    inFlight,    \* files held in the state at a graceful stop
    gpc,         \* generator: "off", "loop", "fetch", "got", "dump", "sleep",
                 \*            "summary", "done", "crashed"
    interval,    \* generator: self.interval
    duration,    \* generator: the duration of generate_stream
    now,         \* time.time(), in seconds
    start_time,  \* generate_stream: start_time
    attempts,    \* fetch_position, this call: per request, outcome and wait
    position,    \* generate_stream: position (the result of the fetch)
    previous_position,  \* generator: self.previous_position
    data_points, \* generate_stream: data_points
    output_dir,  \* the generator's output directory: records written, in order
    summary      \* the final summary printed, or None

streamVars == <<files, pc, run, status, seen, batchId, wm, evictWm, state,
                arrWm, sinkLog, procOut, statsEmits, inFlight>>

genVars == <<gpc, interval, duration, now, start_time, attempts, position,
             previous_position, data_points, output_dir, summary>>

vars == <<streamVars, genVars>>

----------------------------------------------------------------------------
(* Program constants *)

\* window(col("event_time"), "1 minute")
WindowSize == 60
\* withWatermark("event_time", "10 seconds")
Lateness == 10

\* ISSDataFetcher.__init__(self, max_retries: int = 3); the generator
\* builds its fetcher with the default
max_retries == 3
\* R = 6371 km: kilometres of great circle per hundredth of a degree,
\* 6371 * pi / 18000 = 1.11194927, times 10^8
KmPerCentiDegE8 == 111194927

(* Bounds of the model *)

\* the generator runs for at most this many seconds (--duration)
MaxDuration == 5
\* the same, when the generator runs next to the streaming application
MaxSharedDuration == 2

\* free arrivals: at most this many files, any order, any record of Records
MaxFiles == 3
\* scenario arrivals: this many files after the five of Scenario
ScenarioTail == 1
\* run_analysis is started at most this many times (SpecRestart)
MaxRuns == 2

\* event times of the free arrivals: one in window [0,60), two in
\* [60,120), one in [120,180); 70 and 130 are 10 s past a window end
Times == {0, 65, 70, 130}
\* the arrival scenario of the specification, section 8
Scenario == <<0, 10, 20, 50, 65>>

Queries == {"proc", "stats", "console"}
\* the queries started by write_stream: json file sink, checkpoint of their own
DurableQueries == {"proc", "stats"}

----------------------------------------------------------------------------
(* Records and rows *)

\* a file whose line does not parse against the schema
Malformed == [ok |-> FALSE, ts |-> 0]
WellFormed(t) == [ok |-> TRUE, ts |-> t]
Records == {WellFormed(t) : t \in Times} \cup {Malformed}

\* a file that open(filepath, 'w') has created and nothing was written to
EmptyFile == [ok |-> FALSE, ts |-> 0, size |-> 0]
IsEmpty(rec) == "size" \in DOMAIN rec

SetMax(S) == CHOOSE x \in S : \A y \in S : y <= x
Max(a, b) == IF a >= b THEN a ELSE b

\* readStream.schema(self.schema).json(input_path) on one file: the row,
\* all nulls when the line is malformed
read_stream(i, rec) ==
    IF rec.ok THEN [id |-> i, isnull |-> FALSE, timestamp |-> rec.ts]
              ELSE [id |-> i, isnull |-> TRUE, timestamp |-> 0]

\* process_stream: event_time = to_timestamp(timestamp), null for a null
process_stream(row) ==
    [id |-> row.id, isnull |-> row.isnull, event_time |-> row.timestamp]

\* (mutant) a source that leaves one of the new files out
NewFilesButOne(n, len) == (n + 2) .. len

\* the files a query's micro-batch takes: those after the n its source log
\* records, of a directory listing of len files
NewFiles(n, len) == (n + 1) .. len

\* (mutant) the window start rounded up instead of down
WindowStartCeil(t) == ((t + WindowSize - 1) \div WindowSize) * WindowSize

\* window(col("event_time"), "1 minute"): start of the tumbling window of t
WindowStart(t) == (t \div WindowSize) * WindowSize
WindowEnd(t) == WindowStart(t) + WindowSize

\* (mutant) no row is dropped as late
LateRowNever(t, w) == FALSE

\* (mutant) a row is late only when the watermark is past its window's end
LateRowStrict(t, w) == WindowEnd(t) < w

\* the watermark predicate of the aggregation: the row's window has closed
LateRow(t, w) == WindowEnd(t) <= w

\* (mutant) the watermark follows the last batch, also backward
WatermarkLatest(old, maxEvent) == maxEvent - Lateness

\* (mutant) the watermark without the allowed lateness
WatermarkNoDelay(old, maxEvent) == Max(old, maxEvent)

\* the watermark after a micro-batch whose largest event time is maxEvent
Watermark(old, maxEvent) == Max(old, maxEvent - Lateness)

\* (mutant) a sink that writes every batch it is handed
SinkAcceptsAll(log, b) == TRUE

\* the file sink: a batch is written unless its id is already in the log
SinkAccepts(log, b) == b > log

----------------------------------------------------------------------------
(* The generator's values *)

\* Python's None
None == [none |-> TRUE]

\* --interval and --duration are parsed with type=int: any integer
Intervals == {-1, 0, 1}
Durations == 0 .. MaxDuration

\* what the API returns as "timestamp" (epoch seconds of its own clock) and
\* as "iss_position": three points, two on the meridian 0, two on the
\* equator
Stamps == {100, 110}
Positions == {[latitude |-> 0, longitude |-> 0],
              [latitude |-> 9, longitude |-> 0],
              [latitude |-> 0, longitude |-> 9]}
Samples == {[latitude |-> p.latitude, longitude |-> p.longitude, timestamp |-> t]
              : p \in Positions, t \in Stamps}

\* the outcome of one request of fetch_position: the reply is a success,
\* requests raises (connection error, timeout, HTTP error status), or the
\* reply parses and its "message" is not "success"
Outcomes == {"success", "RequestException", "not_success"}

\* a request takes this long (it is bounded by timeout=10)
RequestSeconds == 1

Abs(x) == IF x >= 0 THEN x ELSE -x

\* two points for which the haversine formula reduces to a difference of
\* angles: on one meridian, or both on the equator
OnTrack(p, q) ==
    \/ p.longitude = q.longitude
    \/ p.latitude = 0 /\ q.latitude = 0

\* calculate_velocity, its haversine part: the central angle between the
\* two points, in hundredths of a degree.  With dlon = 0, a = sin(dlat/2)^2
\* and c = |dlat|; with lat1 = lat2 = 0, a = sin(dlon/2)^2 and c = |dlon|
haversine(lat1, lon1, lat2, lon2) ==
    CASE lon1 = lon2 -> Abs(lat2 - lat1)
      [] lon1 # lon2 /\ lat1 = 0 /\ lat2 = 0 -> Abs(lon2 - lon1)

\* round(distance / time_diff, 4) in units of 0.0001 km/s, time_diff > 0
RoundedQuotient(angle, time_diff) ==
    (KmPerCentiDegE8 * angle + 5000 * time_diff) \div (10000 * time_diff)

\* (mutant) the elapsed time taken without its sign
calculate_velocity_abs(lat1, lon1, lat2, lon2, time_diff) ==
    IF time_diff # 0
    THEN RoundedQuotient(haversine(lat1, lon1, lat2, lon2), Abs(time_diff))
    ELSE 0

\* calculate_velocity, with the round(velocity, 4) of its caller
calculate_velocity(lat1, lon1, lat2, lon2, time_diff) ==
    IF time_diff > 0
    THEN RoundedQuotient(haversine(lat1, lon1, lat2, lon2), time_diff)
    ELSE 0

\* (mutant) no UNKNOWN: a missing previous sample counts as not ascending
orbit_phase_no_unknown(pos, prev) ==
    IF prev # None /\ pos.latitude > prev.latitude THEN "ASCENDING"
                                                    ELSE "DESCENDING"

\* generate_stream, the orbit_phase of a sample
orbit_phase(pos, prev) ==
    IF prev # None
    THEN IF pos.latitude > prev.latitude THEN "ASCENDING" ELSE "DESCENDING"
    ELSE "UNKNOWN"

\* generate_stream, lines 62-86: the record written for a sample.  Of the
\* record, fetch_time, altitude_km and distance_to_paris_km are left out
enrich(pos, prev) ==
    [latitude |-> pos.latitude,
     longitude |-> pos.longitude,
     timestamp |-> pos.timestamp,
     velocity_km_s |->
        IF prev # None
        THEN calculate_velocity(prev.latitude, prev.longitude,
                                pos.latitude, pos.longitude,
                                pos.timestamp - prev.timestamp)
        ELSE 0,
     orbit_phase |-> orbit_phase(pos, prev)]

\* (mutant) every poll cycle is counted
count_after_every_cycle(n, pos) == n + 1

\* data_points after a poll cycle whose fetch gave pos
count_after(n, pos) == IF pos # None THEN n + 1 ELSE n

\* (mutant) the slot keeps the first record of the session
previous_after_first(prev, rec) == IF prev = None THEN rec ELSE prev

\* self.previous_position = position
previous_after(prev, rec) == rec

\* fetch_position: the time.sleep after request number attempt (from 0)
\* when its outcome is outcome
fetch_wait(attempt, outcome) ==
    IF outcome = "RequestException" /\ attempt # max_retries - 1
    THEN 2 ^ attempt
    ELSE 0

\* fetch_position: the request number attempt is the last one of the call
fetch_returns(attempt, outcome) ==
    \/ outcome = "success"
    \/ attempt = max_retries - 1

----------------------------------------------------------------------------
(* The bounded inputs *)

IsScenarioFeed(fs) ==
    /\ Len(fs) <= Len(Scenario) + ScenarioTail
    /\ \A k \in 1 .. Len(fs) :
         /\ fs[k].ok
         /\ k <= Len(Scenario) => fs[k].ts = Scenario[k]
         /\ k > Len(Scenario) => fs[k].ts \in Times /\ fs[k].ts >= WindowSize

ScenarioRecords == {WellFormed(Scenario[k]) : k \in 1 .. Len(Scenario)}

----------------------------------------------------------------------------
(* Initial state: nothing on disk, run_analysis not started *)

NoCheckpointSeen == [q \in Queries |-> 0]
NoCheckpointBatch == [q \in DurableQueries |-> 0]
EmptyState == [ws \in {} |-> 0]

Init ==
    /\ files = << >>
    /\ pc = "idle"
    /\ run = 0
    /\ status = [q \in Queries |-> "none"]
    /\ seen = NoCheckpointSeen
    /\ batchId = NoCheckpointBatch
    /\ wm = 0
    /\ evictWm = 0
    /\ state = EmptyState
    /\ arrWm = << >>
    /\ sinkLog = [q \in DurableQueries |-> -1]
    /\ procOut = << >>
    /\ statsEmits = {}
    /\ inFlight = {}
    /\ gpc = "off"
    /\ interval = 0
    /\ duration = 0
    /\ now = 0
    /\ start_time = 0
    /\ attempts = << >>
    /\ position = None
    /\ previous_position = None
    /\ data_points = 0
    /\ output_dir = << >>
    /\ summary = None

----------------------------------------------------------------------------
(* The producer side: a record file appears in the input directory *)

\* free arrivals: any record of Records, in any order
FileArrive ==
    /\ Len(files) < MaxFiles
    /\ \E rec \in Records : files' = Append(files, rec)
    /\ UNCHANGED <<pc, run, status, seen, batchId, wm, evictWm, state, arrWm,
                   sinkLog, procOut, statsEmits, inFlight>>
    /\ UNCHANGED genVars

\* scenario arrivals: the records of Scenario in their order, then records
\* of the second window or later
ScenarioArrive ==
    /\ \E rec \in Records \cup ScenarioRecords :
         /\ IsScenarioFeed(Append(files, rec))
         /\ files' = Append(files, rec)
    /\ UNCHANGED <<pc, run, status, seen, batchId, wm, evictWm, state, arrWm,
                   sinkLog, procOut, statsEmits, inFlight>>
    /\ UNCHANGED genVars

----------------------------------------------------------------------------
(* run_analysis *)

\* clean_checkpoints: the checkpoint directory is removed when it exists
\* (cleaned); when rmtree raises, the warning is printed and the
\* checkpoints stay (~cleaned)
clean_checkpoints(cleaned) ==
    IF cleaned
    THEN /\ seen' = NoCheckpointSeen
         /\ batchId' = NoCheckpointBatch
         /\ wm' = 0
         /\ evictWm' = 0
         /\ state' = EmptyState
         /\ arrWm' = << >>
    ELSE UNCHANGED <<seen, batchId, wm, evictWm, state, arrWm>>

\* run_analysis up to the awaitTermination loop: session, clean_checkpoints,
\* the two durable queries, and the console query when console_output
run_analysis(cleaned, console_output) ==
    /\ clean_checkpoints(cleaned)
    /\ run' = run + 1
    /\ status' = [q \in Queries |->
                    IF q = "console" /\ ~console_output THEN "none"
                                                         ELSE "active"]
    /\ pc' = "await"
    /\ UNCHANGED <<files, sinkLog, procOut, statsEmits, inFlight>>
    /\ UNCHANGED genVars

\* the first start: there is no checkpoint directory yet
Start ==
    /\ pc = "idle"
    /\ \E console_output \in BOOLEAN : run_analysis(TRUE, console_output)

----------------------------------------------------------------------------
(* The statistics query: one micro-batch of compute_statistics *)

Rows(ids) ==
    {process_stream(read_stream(i, files[i]))
       : i \in {j \in ids : ~IsEmpty(files[j])}}

\* rows of the batch that reach the state: event_time not null, not late
Kept(rows, w) ==
    {r \in rows : ~r.isnull /\ ~LateRow(r.event_time, w)}

\* the state after the kept rows are aggregated into their windows
Accumulate(st, kept) ==
    LET touched == {WindowStart(r.event_time) : r \in kept}
        old(ws) == IF ws \in DOMAIN st THEN st[ws]
                                       ELSE [data_points |-> 0, rows |-> {}]
        add(ws) == {r.id : r \in {x \in kept : WindowStart(x.event_time) = ws}}
    IN  [ws \in (DOMAIN st) \cup touched |->
           [data_points |-> old(ws).data_points + Cardinality(add(ws)),
            rows |-> old(ws).rows \cup add(ws)]]

\* (mutant) no window is ever closed
ClosedNever(st, w) == {}

\* the windows of the state that the watermark in force has closed
Closed(st, w) == {ws \in DOMAIN st : ws + WindowSize <= w}

StatsBatch ==
    /\ pc = "await"
    /\ status["stats"] = "active"
    /\ seen["stats"] < Len(files) \/ wm > evictWm
    /\ LET n      == seen["stats"]
           new    == NewFiles(n, Len(files))
           rows   == Rows(new)
           kept   == Kept(rows, wm)
           st1    == Accumulate(state, kept)
           closed == Closed(st1, wm)
           events == {r.event_time : r \in {x \in rows : ~x.isnull}}
           out    == {[window |-> [start |-> ws, end |-> ws + WindowSize],
                       data_points |-> st1[ws].data_points,
                       rows |-> st1[ws].rows,
                       wm |-> wm, upto |-> n, run |-> run,
                       written |-> SinkAccepts(sinkLog["stats"], batchId["stats"])]
                      : ws \in closed}
       IN  /\ state' = [ws \in (DOMAIN st1) \ closed |-> st1[ws]]
           /\ statsEmits' = statsEmits \cup out
           /\ sinkLog' = [sinkLog EXCEPT !["stats"] = Max(@, batchId["stats"])]
           /\ evictWm' = wm
           /\ wm' = IF events = {} THEN wm ELSE Watermark(wm, SetMax(events))
           /\ arrWm' = arrWm \o [k \in 1 .. Len(files) - Len(arrWm) |-> wm]
           /\ seen' = [seen EXCEPT !["stats"] = Len(files)]
           /\ batchId' = [batchId EXCEPT !["stats"] = @ + 1]
    /\ UNCHANGED <<files, pc, run, status, procOut, inFlight>>
    /\ UNCHANGED genVars

----------------------------------------------------------------------------
(* The processed-records query and the console query: one micro-batch *)

\* write_stream: the rows of a batch are appended to the sink's stream
\* unless the sink's log already holds the batch id
write_stream(out, log, b, rows) ==
    IF SinkAccepts(log, b) THEN out \o rows ELSE out

ProcBatch ==
    /\ pc = "await"
    /\ status["proc"] = "active"
    /\ seen["proc"] < Len(files)
    /\ LET n    == seen["proc"]
           b    == batchId["proc"]
           rows == [k \in 1 .. Len(files) - n |->
                      [id |-> n + k,
                       isnull |-> process_stream(read_stream(n + k, files[n + k])).isnull]]
       IN  /\ procOut' = write_stream(procOut, sinkLog["proc"], b,
                  SelectSeq(SubSeq(rows, 1, Cardinality(NewFiles(n, Len(files)))),
                            LAMBDA r : ~IsEmpty(files[r.id])))
           /\ sinkLog' = [sinkLog EXCEPT !["proc"] = Max(@, b)]
           /\ seen' = [seen EXCEPT !["proc"] = Len(files)]
           /\ batchId' = [batchId EXCEPT !["proc"] = @ + 1]
    /\ UNCHANGED <<files, pc, run, status, wm, evictWm, state, arrWm,
                   statsEmits, inFlight>>
    /\ UNCHANGED genVars

\* write_to_console: the rows of a batch are shown; nothing durable
ConsoleBatch ==
    /\ pc = "await"
    /\ status["console"] = "active"
    /\ seen["console"] < Len(files)
    /\ seen' = [seen EXCEPT !["console"] = Len(files)]
    /\ UNCHANGED <<files, pc, run, status, batchId, wm, evictWm, state, arrWm,
                   sinkLog, procOut, statsEmits, inFlight>>
    /\ UNCHANGED genVars

----------------------------------------------------------------------------
(* Failure and termination *)

\* a query's micro-batch raises (a write to its sink fails): the query
\* terminates with the exception; the batch is not committed
QueryFail ==
    /\ pc = "await"
    /\ \E q \in Queries :
         /\ status[q] = "active"
         /\ status' = [status EXCEPT ![q] = "failed"]
    /\ UNCHANGED <<files, pc, run, seen, batchId, wm, evictWm, state, arrWm,
                   sinkLog, procOut, statsEmits, inFlight>>
    /\ UNCHANGED genVars

\* spark.stop() and query.stop(): every query still running is stopped
StopAll(st) == [q \in Queries |-> IF st[q] = "active" THEN "stopped" ELSE st[q]]

\* (mutant) a loop that waits for the console query first
AwaitedQueryConsole == "console"

\* the query the awaitTermination loop blocks on.  queries[0] is query1,
\* iss_processed_data; a query ends only by failing or by stop(), and
\* stop() is called only from the KeyboardInterrupt handler, so the loop
\* never gets past its first query without leaving the try block
AwaitedQuery == "proc"

\* query.awaitTermination() raises the exception of a failed query; it is
\* no KeyboardInterrupt, so only the finally clause runs (spark.stop())
\* and the exception reaches the caller of run_analysis
AwaitRaise ==
    /\ pc = "await"
    /\ status[AwaitedQuery] = "failed"
    /\ status' = StopAll(status)
    /\ pc' = "raised"
    /\ UNCHANGED <<files, run, seen, batchId, wm, evictWm, state, arrWm,
                   sinkLog, procOut, statsEmits, inFlight>>
    /\ UNCHANGED genVars

\* KeyboardInterrupt while blocked: every query is stopped, "All queries
\* stopped successfully" is printed, spark.stop(), run_analysis returns
Interrupt ==
    /\ pc = "await"
    /\ status' = StopAll(status)
    /\ pc' = "returned"
    /\ inFlight' = inFlight \cup UNION {state[ws].rows : ws \in DOMAIN state}
    /\ UNCHANGED <<files, run, seen, batchId, wm, evictWm, state, arrWm,
                   sinkLog, procOut, statsEmits>>
    /\ UNCHANGED genVars

\* the application is started again on the same directories
Restart ==
    /\ pc \in {"raised", "returned"}
    /\ run < MaxRuns
    /\ \E cleaned \in BOOLEAN, console_output \in BOOLEAN :
         run_analysis(cleaned, console_output)

----------------------------------------------------------------------------
(* The generator: __main__, ISSDataGenerator.__init__, generate_stream *)

\* __main__ builds the generator from the arguments and calls
\* generate_stream, which runs up to the loop
GeneratorStart ==
    /\ gpc = "off"
    /\ \E i \in Intervals, d \in Durations :
         /\ interval' = i
         /\ duration' = d
    /\ previous_position' = None
    /\ start_time' = now
    /\ data_points' = 0
    /\ gpc' = "loop"
    /\ UNCHANGED <<now, attempts, position, output_dir, summary>>
    /\ UNCHANGED streamVars

\* while (time.time() - start_time) < duration: the body starts with the
\* call of fetch_position
LoopTest ==
    /\ gpc = "loop"
    /\ IF now - start_time < duration
       THEN gpc' = "fetch" /\ attempts' = << >>
       ELSE gpc' = "summary" /\ UNCHANGED attempts
    /\ UNCHANGED <<interval, duration, now, start_time, position,
                   previous_position, data_points, output_dir, summary>>
    /\ UNCHANGED streamVars

\* fetch_position, one pass of its for loop: the request, and on a
\* RequestException the sleep before the next one; the call returns the
\* sample of a success, and None after the last attempt
Request ==
    /\ gpc = "fetch"
    /\ Len(attempts) < max_retries
    /\ \E outcome \in Outcomes, sample \in Samples :
         LET attempt == Len(attempts)
             wait    == fetch_wait(attempt, outcome)
         IN  /\ previous_position # None => OnTrack(previous_position, sample)
             /\ attempts' = Append(attempts, [outcome |-> outcome, wait |-> wait])
             /\ now' = now + RequestSeconds + wait
             /\ IF fetch_returns(attempt, outcome)
                THEN /\ gpc' = "got"
                     /\ position' = IF outcome = "success" THEN sample ELSE None
                ELSE /\ gpc' = "fetch"
                     /\ UNCHANGED position
    /\ UNCHANGED <<interval, duration, start_time, previous_position,
                   data_points, output_dir, summary>>
    /\ UNCHANGED streamVars

\* generate_stream, lines 62-100: a sample is enriched against the
\* previous one, written to a file of its own and kept as the previous
\* one; without a sample nothing is done
ProcessPosition ==
    /\ gpc = "got"
    /\ IF position # None
       THEN LET rec == enrich(position, previous_position)
            IN  /\ output_dir' = Append(output_dir, rec)
                /\ previous_position' = previous_after(previous_position, rec)
       ELSE UNCHANGED <<output_dir, previous_position>>
    /\ data_points' = count_after(data_points, position)
    /\ gpc' = "sleep"
    /\ UNCHANGED <<interval, duration, now, start_time, attempts, position,
                   summary>>
    /\ UNCHANGED streamVars

\* the generator started for a short run
ShortGeneratorStart ==
    /\ GeneratorStart
    /\ duration' <= MaxSharedDuration

\* a poll cycle without a sample: the if block is skipped
NoSample ==
    /\ position = None
    /\ ProcessPosition

\* with open(filepath, 'w') as f: the file is created, empty, in the
\* directory that the queries read
OpenFile ==
    /\ gpc = "got"
    /\ position # None
    /\ files' = Append(files, EmptyFile)
    /\ gpc' = "dump"
    /\ UNCHANGED <<interval, duration, now, start_time, attempts, position,
                   previous_position, data_points, output_dir, summary>>
    /\ UNCHANGED <<pc, run, status, seen, batchId, wm, evictWm, state, arrWm,
                   sinkLog, procOut, statsEmits, inFlight>>

\* json.dump(position, f) and the end of the with block: the record is in
\* the file; then lines 96-100
DumpFile ==
    /\ gpc = "dump"
    /\ LET rec == enrich(position, previous_position)
       IN  /\ files' = [files EXCEPT ![Len(files)] = WellFormed(rec.timestamp)]
           /\ output_dir' = Append(output_dir, rec)
           /\ previous_position' = previous_after(previous_position, rec)
    /\ data_points' = count_after(data_points, position)
    /\ gpc' = "sleep"
    /\ UNCHANGED <<interval, duration, now, start_time, attempts, position,
                   summary>>
    /\ UNCHANGED <<pc, run, status, seen, batchId, wm, evictWm, state, arrWm,
                   sinkLog, procOut, statsEmits, inFlight>>

\* time.sleep(self.interval): a negative argument raises ValueError, which
\* the try block does not catch
Sleep ==
    /\ gpc = "sleep"
    /\ IF interval < 0
       THEN gpc' = "crashed" /\ UNCHANGED now
       ELSE gpc' = "loop" /\ now' = now + interval
    /\ UNCHANGED <<interval, duration, start_time, attempts, position,
                   previous_position, data_points, output_dir, summary>>
    /\ UNCHANGED streamVars

\* Ctrl+C anywhere in the try block: "Stream generation stopped by user"
KeyboardInterrupt ==
    /\ gpc \in {"loop", "fetch", "got", "dump", "sleep"}
    /\ gpc' = "summary"
    /\ UNCHANGED <<interval, duration, now, start_time, attempts, position,
                   previous_position, data_points, output_dir, summary>>
    /\ UNCHANGED streamVars

\* lines 108-113: the final summary
Summary ==
    /\ gpc = "summary"
    /\ summary' = [data_points |-> data_points, elapsed |-> now - start_time]
    /\ gpc' = "done"
    /\ UNCHANGED <<interval, duration, now, start_time, attempts, position,
                   previous_position, data_points, output_dir>>
    /\ UNCHANGED streamVars

----------------------------------------------------------------------------
(* Specifications *)

\* one execution of run_analysis from empty directories, while its
\* queries run
Running ==
    \/ FileArrive
    \/ Start
    \/ StatsBatch
    \/ ProcBatch
    \/ ConsoleBatch

Next ==
    \/ FileArrive
    \/ ScenarioArrive
    \/ Start
    \/ StatsBatch
    \/ ProcBatch
    \/ ConsoleBatch

Spec == Init /\ [][Next]_vars

\* the statistics query alone, in one execution of run_analysis.  The three
\* queries share no state: each has a source log, a checkpoint and a sink
\* of its own, so the other two change nothing the statistics query reads
NextStats ==
    \/ FileArrive
    \/ ScenarioArrive
    \/ Start
    \/ StatsBatch

SpecStats == Init /\ [][NextStats]_vars

\* one execution of run_analysis whose queries may fail
NextFail == Running \/ QueryFail \/ AwaitRaise

SpecFail == Init /\ [][NextFail]_vars

\* the engine runs an enabled micro-batch, and the main thread takes the
\* exception of the query it waits for; arrivals and failures are up to
\* the environment
Fairness ==
    /\ WF_vars(StatsBatch)
    /\ WF_vars(ProcBatch)
    /\ WF_vars(ConsoleBatch)
    /\ WF_vars(AwaitRaise)

FairSpecFail == SpecFail /\ Fairness

\* executions of run_analysis one after another on the same directories,
\* each stopped by the interrupt
NextRestart == Running \/ Interrupt \/ Restart

SpecRestart == Init /\ [][NextRestart]_vars

\* the statistics query alone, over executions of run_analysis one after
\* another
NextStatsRestart ==
    \/ FileArrive
    \/ Start
    \/ StatsBatch
    \/ Interrupt
    \/ Restart

SpecStatsRestart == Init /\ [][NextStatsRestart]_vars

\* the two durable queries in one execution of run_analysis
NextDurable ==
    \/ FileArrive
    \/ Start
    \/ StatsBatch
    \/ ProcBatch

SpecDurable == Init /\ [][NextDurable]_vars

\* one run of the generator
NextGen ==
    \/ GeneratorStart
    \/ LoopTest
    \/ Request
    \/ ProcessPosition
    \/ Sleep
    \/ KeyboardInterrupt
    \/ Summary

SpecGen == Init /\ [][NextGen]_vars

\* the generator is single-threaded: a statement that can run does run;
\* whether Ctrl+C is pressed is up to the user
\* the generator writing into the directory that the processed-records
\* query of a running run_analysis reads
NextShared ==
    \/ ShortGeneratorStart
    \/ LoopTest
    \/ Request
    \/ NoSample
    \/ OpenFile
    \/ DumpFile
    \/ Sleep
    \/ KeyboardInterrupt
    \/ Summary
    \/ Start
    \/ ProcBatch

SpecShared == Init /\ [][NextShared]_vars

GenFairness ==
    /\ WF_vars(LoopTest)
    /\ WF_vars(Request)
    /\ WF_vars(ProcessPosition)
    /\ WF_vars(Sleep)
    /\ WF_vars(Summary)

FairSpecGen == SpecGen /\ GenFairness

----------------------------------------------------------------------------
(* Properties *)

\* event times the statistics query has observed in its first n files
Observed(n) == {files[i].ts : i \in {k \in 1 .. n : files[k].ok}}

\* the files held in the accumulators of the state
StateRows == UNION {state[ws].rows : ws \in DOMAIN state}

\* the statistics stream: the WindowStats the file sink has written
StatsOut == {e \in statsEmits : e.written}

\* file i was read by the statistics query when the watermark in force had
\* already closed its window
ArrivedLate(i) ==
    /\ i <= Len(arrWm)
    /\ files[i].ok
    /\ (files[i].ts \div WindowSize) * WindowSize + WindowSize <= arrWm[i]

\* C1: within one run of the statistics query every window is emitted at
\* most once, and when it is emitted the watermark in force, which is at
\* most the largest event time observed before minus 10 s, has reached the
\* window's end.
C1_EmitOnceAfterClose ==
    \A e \in statsEmits :
        /\ e.wm >= e.window.end
        /\ Observed(e.upto) # {}
        /\ e.wm <= SetMax(Observed(e.upto)) - Lateness
        /\ \A f \in statsEmits :
               (f.run = e.run /\ f.window = e.window) => f = e

\* C1 witness: a window was emitted and a record of that window was read
\* afterwards.
C1_Witness ==
    \E e \in statsEmits : \E i \in 1 .. seen["stats"] :
        /\ i > e.upto
        /\ files[i].ok
        /\ WindowStart(files[i].ts) = e.window.start

\* C2 (as amended): a record read when its window had already closed
\* (window start + window size <= watermark in force) is dropped: it is in
\* no accumulator and in no emitted WindowStats.
C2_LateRowsDropped ==
    \A i \in 1 .. Len(arrWm) :
        ArrivedLate(i) =>
            /\ i \notin StateRows
            /\ \A e \in statsEmits : i \notin e.rows

\* C2 witness: a record was read after its window had been emitted.
C2_Witness ==
    \E i \in 1 .. Len(arrWm) :
        /\ ArrivedLate(i)
        /\ \E e \in statsEmits : e.window.start = WindowStart(files[i].ts)

\* C2 as stated: no record whose event_time was below (watermark - allowed
\* lateness) when it arrived is included in an emitted window's statistics.
C2_Original ==
    \A e \in statsEmits : \A i \in e.rows :
        ~(files[i].ts < arrWm[i] - Lateness)

\* C3: every record counted in a window lies in [window_start,
\* window_start + window_size), window_start is a multiple of the window
\* size, and a record is counted in at most one accumulator or emitted
\* WindowStats.
C3_RecordInItsWindow ==
    /\ \A ws \in DOMAIN state : \A i \in state[ws].rows :
           /\ ws <= files[i].ts /\ files[i].ts < ws + WindowSize
           /\ ws % WindowSize = 0
    /\ \A e \in statsEmits : \A i \in e.rows :
           /\ e.window.start <= files[i].ts /\ files[i].ts < e.window.end
           /\ e.window.end = e.window.start + WindowSize
           /\ e.window.start % WindowSize = 0
    /\ \A i \in 1 .. Len(files) :
           Cardinality({ws \in DOMAIN state : i \in state[ws].rows})
             + Cardinality({e \in statsEmits : i \in e.rows}) <= 1

\* C3 witness: two open windows, one of them with two records of
\* different event times.
C3_Witness ==
    /\ Cardinality(DOMAIN state) >= 2
    /\ \E ws \in DOMAIN state : \E i, j \in state[ws].rows :
           files[i].ts # files[j].ts

\* C4 (as amended): within one run the watermark never moves backward, and
\* after every micro-batch it is the larger of 0 and (largest event time
\* observed - allowed lateness).
C4_WatermarkMonotone ==
    [][ /\ wm' >= wm
        /\ wm' = IF Observed(seen["stats"])' = {} THEN 0
                 ELSE Max(0, SetMax(Observed(seen["stats"])') - Lateness)
      ]_vars

\* C4 witness: a record was read whose event time lies more than the
\* allowed lateness below the largest one observed before it.
C4_Witness ==
    \E i \in 2 .. seen["stats"] :
        /\ files[i].ok
        /\ Observed(i - 1) # {}
        /\ files[i].ts < SetMax(Observed(i - 1)) - Lateness
        /\ wm > 0

\* C4 as stated: once a record has been observed the watermark equals the
\* largest event time observed minus the allowed lateness.
C4_Original ==
    Observed(seen["stats"]) # {} =>
        wm = SetMax(Observed(seen["stats"])) - Lateness

\* C5: the data_points of an emitted window is the number of records read
\* in that window while it was open, the window is emitted only after a
\* record with event_time >= window end + allowed lateness was observed,
\* and after the arrivals 0,10,20,50,65 window [0,60) is emitted only once
\* a record with event_time >= 70 was read, with data_points = 4.
C5_DataPoints ==
    \A e \in statsEmits :
        /\ e.data_points =
             Cardinality({i \in 1 .. Len(arrWm) :
                            /\ files[i].ok
                            /\ e.window.start <= files[i].ts
                            /\ files[i].ts < e.window.end
                            /\ ~ArrivedLate(i)})
        /\ \E i \in 1 .. e.upto :
               files[i].ok /\ files[i].ts >= e.window.end + Lateness
        /\ (/\ Len(files) >= Len(Scenario)
            /\ \A k \in 1 .. Len(Scenario) : files[k] = WellFormed(Scenario[k])
            /\ \A k \in Len(Scenario) + 1 .. Len(files) : files[k].ts >= 60
            /\ e.window.start = 0)
           => (e.data_points = 4 /\ \E i \in 1 .. e.upto : files[i].ts >= 70)

\* C5 witness: the scenario's window [0,60) has been emitted.
C5_Witness ==
    /\ Len(files) > Len(Scenario)
    /\ \A k \in 1 .. Len(Scenario) : files[k] = WellFormed(Scenario[k])
    /\ \E e \in statsEmits : e.window.start = 0

\* C6 as stated: after a restart the queries resume from the checkpointed
\* progress (every record already written to the processed-records stream
\* and every record behind a written WindowStats is recorded in the
\* query's source log), no record is written twice to the processed-records
\* stream and no window is written twice to the statistics stream.
C6_ResumesFromCheckpoint ==
    /\ \A k \in 1 .. Len(procOut) : procOut[k].id <= seen["proc"]
    /\ \A e \in StatsOut : e.upto <= seen["stats"]
    /\ \A k, l \in 1 .. Len(procOut) : procOut[k].id = procOut[l].id => k = l
    /\ \A e, f \in StatsOut : e.window = f.window => e = f

C8_InFlightNotLost ==
    \A i \in inFlight :
        (/\ i <= seen["stats"]
         /\ evictWm >= WindowEnd(files[i].ts)
         /\ i \notin StateRows)
        => Cardinality({e \in StatsOut : i \in e.rows}) = 1

\* C9 as stated: a record that fails to parse is dropped: it is in neither
\* the processed-records stream nor any window's statistics.
C9_MalformedDropped ==
    /\ \A k \in 1 .. Len(procOut) : files[procOut[k].id].ok
    /\ \A i \in StateRows : files[i].ok
    /\ \A e \in statsEmits : \A i \in e.rows : files[i].ok

\* C10 as stated: when a durable query has failed, run_analysis eventually
\* raises the failure to its caller.
C10_FailureSurfaces ==
    \A q \in DurableQueries : (status[q] = "failed") ~> (pc = "raised")

\* every record the processed-records query has read is in its stream,
\* once, in arrival order
ProcWroteAll ==
    /\ Len(procOut) = seen["proc"]
    /\ \A k \in 1 .. Len(procOut) : procOut[k].id = k

\* every record the statistics query read in time, whose window the
\* watermark used by its last micro-batch has closed, is in a written
\* WindowStats
StatsWroteAllClosed ==
    \A i \in 1 .. seen["stats"] :
        (files[i].ok /\ ~ArrivedLate(i) /\ WindowEnd(files[i].ts) <= evictWm)
        => \E e \in StatsOut : i \in e.rows

\* C11: once the console query has failed, the processed-records query and
\* the statistics query are not stopped by it (run_analysis goes on waiting
\* and a durable query is stopped only after query1 itself has failed),
\* their next micro-batch can run whenever there is input for it, and they
\* have written every record and every closed window they have read.
C11_ConsoleFailureIsolated ==
    status["console"] = "failed" =>
        /\ status["proc"] # "failed" => pc = "await"
        /\ \A q \in DurableQueries :
               status[q] = "stopped" => status["proc"] = "failed"
        /\ (status["proc"] = "active" /\ seen["proc"] < Len(files))
               => ENABLED ProcBatch
        /\ (status["stats"] = "active"
              /\ (seen["stats"] < Len(files) \/ wm > evictWm))
               => ENABLED StatsBatch
        /\ ProcWroteAll
        /\ StatsWroteAllClosed

\* C11 witness: the console query has failed, and both durable queries,
\* still running, have written records that the console query never read.
C11_Witness ==
    /\ status["console"] = "failed"
    /\ status["proc"] = "active" /\ status["stats"] = "active"
    /\ seen["console"] < seen["proc"]
    /\ ProcWroteAll
    /\ \E e \in StatsOut : \E i \in e.rows : i > seen["console"]

\* the requests of the current call of fetch_position that did not succeed
Unsuccessful == {k \in 1 .. Len(attempts) : attempts[k].outcome # "success"}

\* C12 as stated: one call of fetch_position makes at most max_retries
\* requests, every unsuccessful attempt k (from 0) that is followed by
\* another attempt is followed by a wait of 2^k seconds, and the call
\* returns None exactly when no attempt succeeded.
C12_RetriesWithBackoff ==
    /\ Len(attempts) <= max_retries
    /\ \A k \in Unsuccessful :
           k < Len(attempts) => attempts[k].wait = 2 ^ (k - 1)
    /\ gpc = "got" =>
           (position = None <=> Unsuccessful = 1 .. Len(attempts))

\* C13: a poll cycle whose fetch gave no sample writes no record file and
\* leaves data_points and previous_position unchanged, and control goes on
\* to the inter-poll sleep (or to the summary when Ctrl+C is pressed);
\* data_points is always the number of record files written.
C13_FailedCycleSkipped ==
    /\ [](data_points = Len(output_dir))
    /\ [][ (gpc = "got" /\ position = None) =>
             /\ output_dir' = output_dir
             /\ data_points' = data_points
             /\ previous_position' = previous_position
             /\ gpc' \in {"sleep", "summary"}
         ]_vars

\* C13 witness: after a record was written a poll cycle failed, and the
\* next poll cycle has started with the slot still holding that record.
C13_Witness ==
    /\ gpc = "fetch"
    /\ attempts = << >>
    /\ position = None
    /\ output_dir # << >>
    /\ previous_position = output_dir[Len(output_dir)]

\* C14 as stated: with a negative poll interval the generator aborts
\* before any sample is fetched and before any record file is written.
C14_InvalidConfigFatalAtStartup ==
    interval < 0 => (attempts = << >> /\ output_dir = << >>)

\* C15: the first record written in a session has velocity_km_s = 0 and
\* orbit_phase = UNKNOWN, and no later record has orbit_phase = UNKNOWN.
C15_FirstRecordUnknown ==
    \A k \in 1 .. Len(output_dir) :
        IF k = 1
        THEN /\ output_dir[k].velocity_km_s = 0
             /\ output_dir[k].orbit_phase = "UNKNOWN"
        ELSE output_dir[k].orbit_phase # "UNKNOWN"

\* C15 witness: the first record of the session has just been written by a
\* poll cycle of one request, later than one request after the start: the
\* poll cycles before it failed.
C15_Witness ==
    /\ gpc = "sleep"
    /\ position # None
    /\ Len(output_dir) = 1
    /\ Len(attempts) = 1
    /\ now - start_time > RequestSeconds

\* C16: every accumulator holds at least one record, none of them late,
\* and belongs to a window the watermark had not closed in the last
\* micro-batch; a window emitted in this run has no accumulator any more;
\* every emitted WindowStats has data_points >= 1.
C16_NoEmptyWindows ==
    /\ \A ws \in DOMAIN state :
           /\ state[ws].data_points >= 1
           /\ state[ws].rows # {}
           /\ \A i \in state[ws].rows : ~ArrivedLate(i)
           /\ ws + WindowSize > evictWm
    /\ \A e \in statsEmits :
           /\ e.data_points >= 1
           /\ e.run = run => e.window.start \notin DOMAIN state

\* C16 witness: a window was emitted and freed while a later window,
\* skipping an empty one in between, is still accumulating.
C16_Witness ==
    /\ \E e \in statsEmits : e.window.start = 0
    /\ DOMAIN state = {2 * WindowSize}

\* C17 as stated: the loop is left once the elapsed time has reached the
\* duration, and a started generator eventually prints the final summary.
C17_GeneratorTerminates ==
    /\ [][ (gpc = "loop" /\ now - start_time >= duration) =>
             gpc' = "summary" ]_vars
    /\ (gpc # "off") ~> (summary # None)

\* C18: previous_position is None iff no record has been written in this
\* session, otherwise it is the most recently written record, and every
\* record after the first is the enrichment of its sample against the
\* record written immediately before it.
C18_PreviousSlot ==
    /\ previous_position = None <=> output_dir = << >>
    /\ output_dir # << >> => previous_position = output_dir[Len(output_dir)]
    /\ \A k \in 2 .. Len(output_dir) :
           output_dir[k] = enrich(output_dir[k], output_dir[k - 1])

\* C18 witness: three records were written, the third differs from what
\* its enrichment against the first would be, and a failed poll cycle
\* has passed since with the slot holding the third.
C18_Witness ==
    /\ Len(output_dir) = 3
    /\ OnTrack(output_dir[1], output_dir[3])
    /\ output_dir[3] # enrich(output_dir[3], output_dir[1])
    /\ gpc = "sleep"
    /\ position = None
    /\ previous_position = output_dir[3]

\* C19: velocity_km_s is never negative, and it is 0 for the first record,
\* for a record whose timestamp is not after that of the record before,
\* and for a record at the position of the record before.
C19_VelocityZero ==
    \A k \in 1 .. Len(output_dir) :
        /\ output_dir[k].velocity_km_s >= 0
        /\ k = 1 => output_dir[k].velocity_km_s = 0
        /\ k > 1 =>
             LET prior == output_dir[k - 1]
                 cur   == output_dir[k]
             IN  /\ cur.timestamp - prior.timestamp <= 0
                     => cur.velocity_km_s = 0
                 /\ (cur.latitude = prior.latitude
                      /\ cur.longitude = prior.longitude)
                     => cur.velocity_km_s = 0

\* C19 witness: a record 0.09 degrees and 10 s after the one before it,
\* with velocity 1.0008 km/s, then records at another position with
\* elapsed time 0 and elapsed time -10 s, and one at the same position
\* 10 s later.
C19_Witness ==
    \E k, l, m, n \in 2 .. Len(output_dir) :
        /\ output_dir[k].velocity_km_s = 10008
        /\ output_dir[l].timestamp = output_dir[l - 1].timestamp
        /\ output_dir[l].latitude # output_dir[l - 1].latitude
        /\ output_dir[m].timestamp < output_dir[m - 1].timestamp
        /\ output_dir[m].longitude # output_dir[m - 1].longitude
        /\ output_dir[n].timestamp > output_dir[n - 1].timestamp
        /\ output_dir[n].latitude = output_dir[n - 1].latitude
        /\ output_dir[n].longitude = output_dir[n - 1].longitude

\* C20: within one run every record the processed-records query has read
\* is in the processed-records stream exactly once, also a malformed one
\* and one that the statistics query dropped as late.
C20_ProcessedStreamComplete ==
    /\ Len(procOut) = seen["proc"]
    /\ \A i \in 1 .. seen["proc"] :
           Cardinality({k \in 1 .. Len(procOut) : procOut[k].id = i}) = 1

\* C20 witness: a record that the statistics query dropped as late is in
\* the processed-records stream.
C20_Witness ==
    \E i \in 1 .. Len(arrWm) :
        /\ ArrivedLate(i)
        /\ \A e \in statsEmits : i \notin e.rows
        /\ i \notin StateRows
        /\ \E k \in 1 .. Len(procOut) : procOut[k].id = i

\* C21 as stated: every file a query has taken from the directory was a
\* complete record when the query read it (never an empty file).
C21_IngestReadsCompleteFiles ==
    \A q \in Queries : \A i \in 1 .. seen[q] : ~IsEmpty(files[i])

=============================================================================
